---- MODULE Spec2Model ----
(***************************************************************************)
(* GpuManager (src/src/lib.rs): the two constructors simple() and          *)
(* with_window(), the surface-configuration policy, the accessors and the  *)
(* drop of the Manager, as a state machine.  The graphics and windowing    *)
(* libraries are the environment: `host` decides which of their calls      *)
(* succeed, the surface capability set is drawn when get_capabilities is   *)
(* called, and the window's inner size may change while the window lives.  *)
(***************************************************************************)
EXTENDS Integers, Sequences, FiniteSets, TLC

(* ---------------------------------------------------------------- bounds *)
MaxFormats == 2
MaxModes == 2
MaxHandles == 1

(* ------------------------------------------------------------ value sets *)
None == <<>>
Some(x) == <<x>>

TextureFormats == {"Rgba8Unorm", "Bgra8Unorm", "Bgra8UnormSrgb"}
PresentModes == {"Fifo", "Mailbox", "Immediate"}
AlphaModes == {"Opaque", "PreMultiplied"}
TextureUsages == {"COPY_SRC", "COPY_DST", "RENDER_ATTACHMENT"}
WindowSizes == {[width |-> 800, height |-> 600], [width |-> 1920, height |-> 1080]}

Range(s) == {s[i] : i \in 1..Len(s)}

\* Lists of distinct elements of S, of length 0..n.
ListsOf(S, n) ==
    {s \in UNION {[1..k -> S] : k \in 0..n} : Cardinality(Range(s)) = Len(s)}

\* What Surface::get_capabilities may report.
SurfaceCapabilities ==
    [formats : ListsOf(TextureFormats, MaxFormats),
     present_modes : ListsOf(PresentModes, MaxModes),
     alpha_modes : ListsOf(AlphaModes, MaxModes),
     usages : SUBSET TextureUsages]

Hosts == [window : BOOLEAN, surface : BOOLEAN, adapter : BOOLEAN, device : BOOLEAN]

Errors == {"WindowCreationFailed", "SurfaceCreationFailed", "AdapterUnavailable",
           "DeviceCreationFailed", "UnsupportedSurfaceFormat"}

VARIABLES
    mode,           \* "simple" | "window": which constructor runs
    host,           \* which library calls succeed on this host
    pc,             \* position inside the constructor
    calls,          \* the library calls made so far, in order
    live,           \* the resources currently alive
    holders,        \* who holds an Arc<Window>: "local", "surface", "manager"
    callerHandles,  \* Arc<Window> handles returned by window() and still held
    winSize,        \* the window's current inner size (None: no window yet)
    createdSize,    \* the inner size the window had when it was created
    surface_caps,   \* local of create_surface_configuration (None: not read)
    usage,          \* local of create_surface_configuration
    surface_format, \* local of create_surface_configuration
    warned,         \* the compatibility-mode warning was logged
    config,         \* local `config` of with_window
    applied,        \* the configurations handed to surface.configure, in order
    wm_config,      \* WindowManager.config of the returned Manager
    mgr,            \* "none" | "alive" | "dropping" | "dropped"
    fields,         \* the Manager's fields not yet dropped, in drop order
    result          \* "None" | "Ok" | an error | "Panic" | "Cancelled"

vars == <<mode, host, pc, calls, live, holders, callerHandles, winSize, createdSize,
          surface_caps, usage, surface_format, warned, config, applied, wm_config,
          mgr, fields, result>>

envVars == <<mode, host>>
cfgVars == <<surface_caps, usage, surface_format, warned, config, applied>>
winVars == <<winSize, createdSize>>
mgrVars == <<wm_config, mgr, fields, callerHandles>>

(* ------------------------------------------------------- pure functions *)
priority_formats == <<"Rgba8Unorm", "Bgra8Unorm">>

contains(list, x) == \E i \in 1..Len(list) : list[i] = x

RECURSIVE FirstSupported(_, _)
FirstSupported(prio, available_formats) ==
    IF prio = <<>> THEN None
    ELSE IF contains(available_formats, Head(prio)) THEN Some(Head(prio))
    ELSE FirstSupported(Tail(prio), available_formats)

RECURSIVE FirstAdvertised(_, _)
FirstAdvertised(available_formats, prio) ==
    IF available_formats = <<>> THEN None
    ELSE IF contains(prio, Head(available_formats)) THEN Some(Head(available_formats))
    ELSE FirstAdvertised(Tail(available_formats), prio)

\* Mutants of get_surface_format: the advertised order decides; any format will do.
get_surface_format_advertised_order(available_formats) ==
    FirstAdvertised(available_formats, priority_formats)

get_surface_format_fallback(available_formats) ==
    IF FirstSupported(priority_formats, available_formats) # None
        THEN FirstSupported(priority_formats, available_formats)
    ELSE IF available_formats # <<>> THEN Some(Head(available_formats))
    ELSE None

\* None is the bail!() of line 167.
get_surface_format(available_formats) ==
    FirstSupported(priority_formats, available_formats)

\* Mutant of select_usage: copy-destination requested unconditionally.
select_usage_always_copy(usages) == {"RENDER_ATTACHMENT", "COPY_DST"}

select_usage(usages) ==
    IF "COPY_DST" \in usages THEN {"RENDER_ATTACHMENT", "COPY_DST"}
    ELSE {"RENDER_ATTACHMENT"}

\* Mutant of first: the last entry of the list.
last(list) == list[Len(list)]

\* list[0] of the source; the caller guards the empty list, which panics.
first(list) == list[1]

\* Mutant of inner_size: the size cached when the window was created.
inner_size_at_creation == Head(createdSize)

\* Window::inner_size() reads the window's present size.
inner_size == Head(winSize)

SurfaceConfiguration(u, f, size, caps) ==
    [usage |-> u,
     format |-> f,
     width |-> size.width,
     height |-> size.height,
     present_mode |-> first(caps.present_modes),
     desired_maximum_frame_latency |-> 2,
     alpha_mode |-> first(caps.alpha_modes),
     view_formats |-> <<>>]

(* ------------------------------------------------------------ ownership *)
\* Mutant of window_clone: the surface borrows the window, keeping no handle.
window_borrowed == {}

\* create_surface(window.clone()): the surface owns a handle of its own.
window_clone == {"surface"}

strong_count(h, n) == Cardinality(h) + n

\* Arc<Window>: the window is destroyed when the last handle is released.
AfterArcDrop(l, h, n) == IF strong_count(h, n) = 0 THEN l \ {"window"} ELSE l

Locals == {"instance", "window", "surface", "adapter", "device", "queue"}

\* Mutant of ScopeExit: the window and the surface are leaked.
ScopeExitLeak(l, h) ==
    [live |-> l \cap {"window", "surface"}, holders |-> h]

\* Every local of the constructor goes out of scope (`?`, a panic, or the drop
\* of the suspended future).  No Manager exists, so no caller handle does.
ScopeExit(l, h) ==
    LET h2 == h \ {"local", "surface"}
    IN  [live |-> AfterArcDrop(l \ (Locals \ {"window"}), h2, 0), holders |-> h2]

EarlyExit(r) ==
    /\ result' = r
    /\ pc' = "done"
    /\ live' = ScopeExit(live, holders).live
    /\ holders' = ScopeExit(live, holders).holders

WindowManagerFields == <<"window", "surface", "config">>

GpuManagerFields(m) ==
    (IF m = "window" THEN WindowManagerFields ELSE <<>>) \o <<"device", "queue">>

RequestAdapterCall(m) ==
    IF m = "window" THEN "request_adapter(Some(surface))" ELSE "request_adapter(None)"

SimpleSteps == <<"Instance::new", "request_adapter(None)", "request_device">>

WindowSteps == <<"Instance::new", "create_window", "create_surface",
                 "request_adapter(Some(surface))", "request_device",
                 "get_capabilities", "inner_size", "configure">>

(* ----------------------------------------------------------------- Init *)
Init ==
    /\ mode \in {"simple", "window"}
    /\ host \in Hosts
    /\ pc = "instance"
    /\ calls = <<>>
    /\ live = {}
    /\ holders = {}
    /\ callerHandles = 0
    /\ winSize = None
    /\ createdSize = None
    /\ surface_caps = None
    /\ usage = None
    /\ surface_format = None
    /\ warned = FALSE
    /\ config = None
    /\ applied = <<>>
    /\ wm_config = None
    /\ mgr = "none"
    /\ fields = <<>>
    /\ result = "None"


(* ------------------------------------------------- construction: common *)
Call(c) == calls' = Append(calls, c)

\* Mutant of AfterInstance: the headless constructor takes the windowed path.
AfterInstanceAlwaysWindow(m) == "window"

\* simple() goes on to the adapter request, with_window() to the window.
AfterInstance(m) == IF m = "window" THEN "window" ELSE "adapter"

AfterDevice(m) == IF m = "window" THEN "caps" ELSE "return"

\* create_instance(): Instance::new with all backends; it cannot fail.
CreateInstance ==
    /\ pc = "instance"
    /\ Call("Instance::new")
    /\ live' = live \cup {"instance"}
    /\ pc' = AfterInstance(mode)
    /\ UNCHANGED <<envVars, holders, winVars, cfgVars, mgrVars, result>>

\* Arc::new(Self::create_window(event_loop)?), the window created.
CreateWindowOk ==
    /\ pc = "window"
    /\ host.window
    /\ Call("create_window")
    /\ \E s \in WindowSizes :
        /\ winSize' = Some(s)
        /\ createdSize' = Some(s)
    /\ live' = live \cup {"window"}
    /\ holders' = {"local"}
    /\ pc' = "surface"
    /\ UNCHANGED <<envVars, cfgVars, mgrVars, result>>

\* create_window(event_loop)? with the platform error propagated.
CreateWindowFailed ==
    /\ pc = "window"
    /\ ~host.window
    /\ Call("create_window")
    /\ EarlyExit("WindowCreationFailed")
    /\ UNCHANGED <<envVars, winVars, cfgVars, mgrVars>>

\* instance.create_surface(window.clone())?, the surface created.
CreateSurfaceOk ==
    /\ pc = "surface"
    /\ host.surface
    /\ Call("create_surface")
    /\ live' = live \cup {"surface"}
    /\ holders' = holders \cup window_clone
    /\ pc' = "adapter"
    /\ UNCHANGED <<envVars, winVars, cfgVars, mgrVars, result>>

\* create_surface fails: the clone it was given is dropped with the error.
CreateSurfaceFailed ==
    /\ pc = "surface"
    /\ ~host.surface
    /\ Call("create_surface")
    /\ EarlyExit("SurfaceCreationFailed")
    /\ UNCHANGED <<envVars, winVars, cfgVars, mgrVars>>

\* instance.request_adapter(..) is issued and the constructor suspends.
RequestAdapter ==
    /\ pc = "adapter"
    /\ Call(RequestAdapterCall(mode))
    /\ pc' = "await_adapter"
    /\ UNCHANGED <<envVars, live, holders, winVars, cfgVars, mgrVars, result>>

AdapterReady ==
    /\ pc = "await_adapter"
    /\ host.adapter
    /\ live' = live \cup {"adapter"}
    /\ pc' = "device"
    /\ UNCHANGED <<envVars, calls, holders, winVars, cfgVars, mgrVars, result>>

\* Mutant of AdapterFailed: the request is made again.
AdapterFailedRetry ==
    /\ pc = "await_adapter"
    /\ ~host.adapter
    /\ pc' = "adapter"
    /\ UNCHANGED <<envVars, calls, live, holders, winVars, cfgVars, mgrVars, result>>

\* .await? on the adapter request: the error is returned.
AdapterFailed ==
    /\ pc = "await_adapter"
    /\ ~host.adapter
    /\ EarlyExit("AdapterUnavailable")
    /\ UNCHANGED <<envVars, calls, winVars, cfgVars, mgrVars>>

\* adapter.request_device(..) is issued and the constructor suspends.
RequestDevice ==
    /\ pc = "device"
    /\ Call("request_device")
    /\ pc' = "await_device"
    /\ UNCHANGED <<envVars, live, holders, winVars, cfgVars, mgrVars, result>>

DeviceReady ==
    /\ pc = "await_device"
    /\ host.device
    /\ live' = live \cup {"device", "queue"}
    /\ pc' = AfterDevice(mode)
    /\ UNCHANGED <<envVars, calls, holders, winVars, cfgVars, mgrVars, result>>

DeviceFailed ==
    /\ pc = "await_device"
    /\ ~host.device
    /\ EarlyExit("DeviceCreationFailed")
    /\ UNCHANGED <<envVars, calls, winVars, cfgVars, mgrVars>>

\* The caller drops the suspended future at one of its two await points.
Cancel ==
    /\ pc \in {"await_adapter", "await_device"}
    /\ EarlyExit("Cancelled")
    /\ UNCHANGED <<envVars, calls, winVars, cfgVars, mgrVars>>

(* ------------------------------------- create_surface_configuration *)
\* Lines 170-179: the capability set is read, the usage chosen (with the
\* warning when copy-destination is missing) and the format selected; the
\* bail!() of get_surface_format ends the construction.
GetCapabilities ==
    /\ pc = "caps"
    /\ Call("get_capabilities")
    /\ \E caps \in SurfaceCapabilities :
        /\ surface_caps' = Some(caps)
        /\ usage' = Some(select_usage(caps.usages))
        /\ warned' = ("COPY_DST" \notin caps.usages)
        /\ surface_format' = get_surface_format(caps.formats)
    /\ IF surface_format' = None
          THEN EarlyExit("UnsupportedSurfaceFormat")
          ELSE /\ pc' = "size"
               /\ UNCHANGED <<live, holders, result>>
    /\ UNCHANGED <<envVars, winVars, config, applied, mgrVars>>

\* Lines 181-191: the inner size is read and the configuration built; indexing
\* an empty present-mode or alpha-mode list panics.
BuildConfiguration ==
    /\ pc = "size"
    /\ Call("inner_size")
    /\ LET caps == Head(surface_caps)
       IN  IF caps.present_modes = <<>> \/ caps.alpha_modes = <<>>
              THEN /\ EarlyExit("Panic")
                   /\ UNCHANGED config
              ELSE /\ config' = Some(SurfaceConfiguration(Head(usage),
                                         Head(surface_format), inner_size, caps))
                   /\ pc' = "configure"
                   /\ UNCHANGED <<live, holders, result>>
    /\ UNCHANGED <<envVars, winVars, surface_caps, usage, surface_format, warned,
                   applied, mgrVars>>

\* Mutant of Configure: the surface is configured a second time.
ConfigureTwice ==
    /\ pc = "configure"
    /\ Call("configure")
    /\ applied' = applied \o <<Head(config), Head(config)>>
    /\ pc' = "return"
    /\ UNCHANGED <<envVars, live, holders, winVars, surface_caps, usage,
                   surface_format, warned, config, mgrVars, result>>

\* surface.configure(&device, &config)
Configure ==
    /\ pc = "configure"
    /\ Call("configure")
    /\ applied' = Append(applied, Head(config))
    /\ pc' = "return"
    /\ UNCHANGED <<envVars, live, holders, winVars, surface_caps, usage,
                   surface_format, warned, config, mgrVars, result>>

\* Ok(Self { .. }): the Manager takes the window handle, the surface, the
\* configuration, the device and the queue; instance and adapter are dropped.
Return ==
    /\ pc = "return"
    /\ mgr' = "alive"
    /\ fields' = GpuManagerFields(mode)
    /\ wm_config' = IF mode = "window" THEN config ELSE None
    /\ holders' = IF "local" \in holders
                     THEN (holders \ {"local"}) \cup {"manager"} ELSE holders
    /\ live' = live \ {"instance", "adapter"}
    /\ result' = "Ok"
    /\ pc' = "done"
    /\ UNCHANGED <<envVars, calls, winVars, cfgVars, callerHandles>>

(* ------------------------------------------------ accessors and drops *)
\* config(): a reference to the stored configuration.
config_accessor == Head(wm_config)

\* window(): a new counted handle to the window.
Window ==
    /\ mgr = "alive"
    /\ mode = "window"
    /\ callerHandles < MaxHandles
    /\ callerHandles' = callerHandles + 1
    /\ UNCHANGED <<envVars, pc, calls, live, holders, winVars, cfgVars,
                   wm_config, mgr, fields, result>>

\* The caller drops a handle it got from window().
DropHandle ==
    /\ callerHandles > 0
    /\ callerHandles' = callerHandles - 1
    /\ live' = AfterArcDrop(live, holders, callerHandles - 1)
    /\ UNCHANGED <<envVars, pc, calls, holders, winVars, cfgVars,
                   wm_config, mgr, fields, result>>

\* The caller drops the Manager.
DropManager ==
    /\ mgr = "alive"
    /\ mgr' = "dropping"
    /\ UNCHANGED <<envVars, pc, calls, live, holders, winVars, cfgVars,
                   wm_config, fields, callerHandles, result>>

\* The next field is dropped, in declaration order.
DropField ==
    /\ mgr = "dropping"
    /\ fields # <<>>
    /\ LET f == Head(fields)
           h2 == CASE f = "window" -> holders \ {"manager"}
                   [] f = "surface" -> holders \ {"surface"}
                   [] OTHER -> holders
           l2 == CASE f \in {"surface", "device", "queue"} -> live \ {f}
                   [] OTHER -> live
       IN  /\ holders' = h2
           /\ live' = AfterArcDrop(l2, h2, callerHandles)
           /\ wm_config' = IF f = "config" THEN None ELSE wm_config
    /\ fields' = Tail(fields)
    /\ mgr' = IF Tail(fields) = <<>> THEN "dropped" ELSE "dropping"
    /\ UNCHANGED <<envVars, pc, calls, winVars, cfgVars, callerHandles, result>>

(* ----------------------------------------------------------- environment *)
\* The platform changes the window's inner size.
Resize ==
    /\ "window" \in live
    /\ \E s \in WindowSizes \ {Head(winSize)} : winSize' = Some(s)
    /\ UNCHANGED <<envVars, pc, calls, live, holders, createdSize, cfgVars,
                   mgrVars, result>>

Next ==
    \/ CreateInstance
    \/ CreateWindowOk
    \/ CreateWindowFailed
    \/ CreateSurfaceOk
    \/ CreateSurfaceFailed
    \/ RequestAdapter
    \/ AdapterReady
    \/ AdapterFailed
    \/ RequestDevice
    \/ DeviceReady
    \/ DeviceFailed
    \/ Cancel
    \/ GetCapabilities
    \/ BuildConfiguration
    \/ Configure
    \/ Return
    \/ Window
    \/ DropHandle
    \/ DropManager
    \/ DropField
    \/ Resize

Spec == Init /\ [][Next]_vars

(* ------------------------------------------------------------ properties *)
IsPrefix(s, t) == Len(s) <= Len(t) /\ \A i \in 1..Len(s) : s[i] = t[i]

NoDuplicates(s) == \A i, j \in 1..Len(s) : s[i] = s[j] => i = j

Advertised == Range(Head(surface_caps).formats)

\* C1: format selection returns the first entry of [RGBA8-unorm, BGRA8-unorm]
\* that the surface advertises: RGBA8-unorm whenever it is advertised, wherever
\* it stands in the advertised list and whatever else is advertised, and
\* BGRA8-unorm when that is advertised and RGBA8-unorm is not; the selected
\* format is the one the configuration carries.
C1_FormatPriority ==
    surface_caps # None =>
        /\ "Rgba8Unorm" \in Advertised => surface_format = Some("Rgba8Unorm")
        /\ ("Bgra8Unorm" \in Advertised /\ "Rgba8Unorm" \notin Advertised)
               => surface_format = Some("Bgra8Unorm")
        /\ config # None => Some(Head(config).format) = surface_format

C1_Witness ==
    /\ surface_caps # None
    /\ Head(surface_caps).formats = <<"Bgra8Unorm", "Rgba8Unorm">>
    /\ config # None
    /\ Head(config).format = "Rgba8Unorm"

\* C2: when the surface advertises neither RGBA8-unorm nor BGRA8-unorm, the
\* windowed construction has failed with the unsupported-surface-format error:
\* no configuration exists, surface.configure was never called and no Manager
\* was returned, whatever other formats are advertised.
C2_NoFormatFails ==
    (surface_caps # None /\ Advertised \cap {"Rgba8Unorm", "Bgra8Unorm"} = {}) =>
        /\ result = "UnsupportedSurfaceFormat"
        /\ pc = "done"
        /\ surface_format = None
        /\ config = None
        /\ applied = <<>>
        /\ ~contains(calls, "configure")
        /\ mgr = "none"

C2_Witness ==
    /\ result = "UnsupportedSurfaceFormat"
    /\ Head(surface_caps).formats = <<"Bgra8UnormSrgb">>

\* C3: with copy-destination among the supported usages the usage is exactly
\* render-attachment | copy-destination and no warning is logged; without it
\* the usage is exactly render-attachment and the warning is logged; the
\* configuration carries that usage; and a construction that logged the
\* warning fails only for a cause of its own (no acceptable format, or an
\* empty mode list).
C3_UsageSelection ==
    surface_caps # None =>
        LET caps == Head(surface_caps)
        IN  /\ "COPY_DST" \in caps.usages =>
                  usage = Some({"RENDER_ATTACHMENT", "COPY_DST"}) /\ ~warned
            /\ "COPY_DST" \notin caps.usages =>
                  usage = Some({"RENDER_ATTACHMENT"}) /\ warned
            /\ config # None => Some(Head(config).usage) = usage
            /\ (warned /\ pc = "done" /\ result # "Ok") =>
                  \/ Advertised \cap {"Rgba8Unorm", "Bgra8Unorm"} = {}
                  \/ caps.present_modes = <<>>
                  \/ caps.alpha_modes = <<>>

C3_Witness ==
    /\ warned
    /\ result = "Ok"
    /\ Head(config).usage = {"RENDER_ATTACHMENT"}
    /\ "COPY_SRC" \in Head(surface_caps).usages

C5_SizeAtConfiguration ==
    [][(pc = "size" /\ pc' = "configure") =>
          /\ {"adapter", "device", "queue"} \subseteq live
          /\ config' # None
          /\ Head(config').width = Head(winSize).width
          /\ Head(config').height = Head(winSize).height]_vars

C5_Witness ==
    /\ pc = "configure"
    /\ config # None
    /\ Head(config).width # Head(createdSize).width
    /\ Head(config).width = Head(winSize).width

FailingCall(e) ==
    CASE e = "WindowCreationFailed" -> "create_window"
      [] e = "SurfaceCreationFailed" -> "create_surface"
      [] e = "AdapterUnavailable" -> RequestAdapterCall(mode)
      [] e = "DeviceCreationFailed" -> "request_device"
      [] e = "UnsupportedSurfaceFormat" -> "get_capabilities"

\* C6: no library call is made twice in a construction; when the construction
\* has failed, the error is that of the last call made (nothing ran after the
\* failing step) and no Manager exists; a Manager exists only after every
\* step of its constructor ran and the result is Ok.
C6_FailFast ==
    /\ NoDuplicates(calls)
    /\ result \in Errors =>
          /\ pc = "done"
          /\ mgr = "none"
          /\ calls # <<>>
          /\ calls[Len(calls)] = FailingCall(result)
    /\ mgr # "none" =>
          /\ result = "Ok"
          /\ calls = IF mode = "window" THEN WindowSteps ELSE SimpleSteps

C6_Witness ==
    /\ result = "DeviceCreationFailed"
    /\ mode = "window"
    /\ calls[Len(calls)] = "request_device"

\* C7: the window is alive whenever the surface bound to it is alive or a
\* handle returned by window() is still held.
C7_WindowOutlives ==
    ("surface" \in live \/ callerHandles > 0) => "window" \in live

C7_Witness ==
    /\ mgr = "dropped"
    /\ callerHandles > 0
    /\ "window" \in live
    /\ "surface" \notin live

\* C8: a construction that ended in an error or was abandoned at an await
\* point has released every resource it created, the window's handles
\* included, and left no Manager.
C8_ReleasedOnEarlyExit ==
    (pc = "done" /\ result \in Errors \cup {"Cancelled"}) =>
        /\ live = {}
        /\ holders = {}
        /\ mgr = "none"

C8_Witness ==
    /\ result = "Cancelled"
    /\ mode = "window"
    /\ calls[Len(calls)] = "request_device"
    /\ live = {}

\* C9: simple() makes exactly the calls Instance::new, request_adapter with no
\* surface, request_device, in that order, and never has a window or a
\* surface; unless abandoned it ends Ok with a Manager holding device and
\* queue when the host has an adapter that yields a device, with the adapter
\* error when no adapter matches, and with the device error when the adapter
\* yields no device.
C9_Headless ==
    mode = "simple" =>
        /\ IsPrefix(calls, SimpleSteps)
        /\ live \cap {"window", "surface"} = {}
        /\ holders = {}
        /\ winSize = None
        /\ (pc = "done" /\ result # "Cancelled") =>
              /\ (host.adapter /\ host.device) =>
                    /\ result = "Ok"
                    /\ calls = SimpleSteps
                    /\ mgr = "alive" => live = {"device", "queue"}
              /\ ~host.adapter => result = "AdapterUnavailable" /\ mgr = "none"
              /\ (host.adapter /\ ~host.device) =>
                    result = "DeviceCreationFailed" /\ mgr = "none"

C9_Witness ==
    /\ mode = "simple"
    /\ result = "Ok"
    /\ mgr = "alive"
    /\ live = {"device", "queue"}

\* C10: with_window() makes its calls in the fixed order of WindowSteps; the
\* surface is configured at most once, with the configuration computed before
\* and after the device was obtained; and config() of the returned Manager is
\* the configuration that was applied.
C10_LinearOrder ==
    mode = "window" =>
        /\ IsPrefix(calls, WindowSteps)
        /\ Len(applied) <= 1
        /\ applied # <<>> =>
              /\ config # None
              /\ applied[1] = Head(config)
              /\ contains(calls, "request_device")
              /\ host.device
        /\ mgr = "alive" =>
              /\ Len(applied) = 1
              /\ config_accessor = applied[1]

C10_Witness ==
    /\ mode = "window"
    /\ mgr = "alive"
    /\ Len(applied) = 1
    /\ config_accessor = applied[1]
    /\ config_accessor.width # Head(winSize).width

====
